---- MODULE Spec2Model ----
(***************************************************************************)
(* Model of the stock exchange web-server (homework6.cpp).                 *)
(*                                                                         *)
(* The shared state is sm::stockMap, an unordered_map from stock name to   *)
(* Stock {name, balance, mutex}.  Every accepted connection runs           *)
(* clientThread on its own detached thread; clientThread calls process,    *)
(* which calls one of createS / buyS / sellS / statusS / resetS.  Each     *)
(* access to the map (find, operator[], clear) and each access to a field  *)
(* of a record is one step of the thread that makes it, so the threads     *)
(* interleave between any two accesses, as the code allows.  The map has   *)
(* no lock of its own, so the insertion that createS makes through         *)
(* operator[] is two steps, the read of the node list and the link of the  *)
(* new node: two insertions that overlap are a data race in which the      *)
(* later link drops the node linked in between.                            *)
(***************************************************************************)
EXTENDS Integers, FiniteSets, Sequences, TLC

\* ---------------------------------------------------------------- bounds
MaxRequests == 3
MaxAmount == 2

\* one detached thread per accepted connection, numbered in accept order
Threads == 1..MaxRequests
Symbols == {"A", "B"}
Amounts == 1..MaxAmount
LedgerVerbs == {"create", "buy", "sell", "status", "reset"}
Verbs == LedgerVerbs \cup {"frobnicate"}

NoOwner == 0
GuardStates == {"none", "live", "dangling", "lost", "hung"}
NoStock == ""
NoTrans == ""
DefaultBalance == 0

\* ------------------------------------------------------------ the state
VARIABLES
    stockMap,   \* sm::stockMap: function from the present names to records
    accepted,   \* number of connections runServer has accepted
    pc,         \* position of each thread in clientThread/process/xxxS
    trans,      \* the verb each thread parsed
    stock,      \* the stock name each thread parsed
    a,          \* the amount each thread parsed
    ret,        \* the result string of each thread
    tmp,        \* the balance a thread loaded in a read-modify-write
    guard,      \* each thread's Guard: "none", "live", "dangling" once
                \* the record whose mutex it references was destroyed,
                \* "lost" once that record was dropped from the node list,
                \* "hung" when it waits on a destroyed mutex for ever
    head,       \* the names in the node list as the thread's insertion
                \* read it
    io,         \* each connection's stream: "ok", or what failed on it
    out,        \* each connection's stream: the responses written to it
    \* history variables: they record what happened and steer nothing
    preReset,   \* the thread's request started before the latest reset
    cleared,    \* per symbol: a reset completed and no create of the
                \* symbol has started since
    nCreated,   \* per symbol: "created" results since the latest reset
    pre,        \* sequential runs: the ledger when the request started
    lastOp,     \* sequential runs: per symbol, the last finished request
    expected    \* adjust-only runs: per symbol, initial balance plus the
                \* deltas of the accepted buy/sell requests

vars == <<stockMap, accepted, pc, trans, stock, a, ret, tmp, guard, head, io,
          out,
          preReset, cleared, nCreated, pre, lastOp, expected>>

reqVars == <<trans, stock, a>>
ioVars == <<io, out>>
histVars == <<preReset, cleared, nCreated, pre, lastOp, expected>>

\* ------------------------------------------------------- result strings
NoRet == <<"", NoStock, 0>>
AlreadyExists(s) == <<"Stock s already exists", s, 0>>
Created(s, n) == <<"Stock s created with balance = n", s, n>>
NotFound == <<"Stock not found", NoStock, 0>>
Updated(s) == <<"Stock s's balance updated", s, 0>>
BalanceFor(s, b) == <<"Balance for stock s = b", s, b>>
StocksReset == <<"Stocks reset", NoStock, 0>>
InvalidRequest == <<"Invalid request", NoStock, 0>>

\* ------------------------------------------------------- map operations
\* what a request finds under its stock name: absent, or a balance
Absent == <<FALSE, 0>>
Bal(b) == <<TRUE, b>>
NoLast == <<NoTrans, 0, NoRet, Absent>>

\* the ledger as status would report it: every symbol's balance, or absent
Ledger(m) == [s \in Symbols |-> IF s \in DOMAIN m THEN Bal(m[s].balance)
                                                  ELSE Absent]
NoLedger == [s \in Symbols |-> Absent]

\* a value-initialised Stock, as operator[] inserts it
NewStock == [name |-> "", balance |-> DefaultBalance, mutex |-> NoOwner]

\* the map after clear(), and at program start
EmptyMap == [t \in {} |-> NewStock]

\* stockMap.find(s) != stockMap.end()
Found(m, s) == s \in DOMAIN m

\* stockMap[s]: inserts a value-initialised record when s is not a key
Index(m, s) ==
    IF s \in DOMAIN m THEN m
    ELSE [t \in DOMAIN m \cup {s} |-> IF t = s THEN NewStock ELSE m[t]]

\* stockMap[s].balance = v
Stored(m, s, v) == [Index(m, s) EXCEPT ![s].balance = v]

\* positions inside the body of createS/buyS/sellS/statusS, after the find
InsidePcs == {"c_lock", "c_link", "c_name", "c_bal", "c_unlock",
              "b_lock", "b_read", "b_write", "b_unlock",
              "s_lock", "s_read", "s_write", "s_unlock",
              "st_read"}

\* ------------------------------------------------- the Guard on a mutex
\* Guard lock(sm::stockMap[s].mutex): operator[] first, then mutex.lock(),
\* which returns only once the mutex is free
\* variant: the Guard does not wait for the mutex
CanLock_NoWait(m, s) == TRUE

CanLock(m, s) == Index(m, s)[s].mutex = NoOwner
Locked(m, s, h) == [Index(m, s) EXCEPT ![s].mutex = h]

\* a thread at its Guard whose record is locked by another thread is
\* about to call operator[] or is already waiting inside mutex.lock()
AtBusyMutex(m, p, s, g) ==
    /\ p \in {"c_lock", "b_lock", "s_lock"}
    /\ g = "none"
    /\ s \in DOMAIN m
    /\ m[s].mutex # NoOwner

\* what clear() makes of a Guard.  A live one dangles.  For a thread at a
\* busy mutex: it had not yet called operator[] and nothing happens to it;
\* or it waits inside lock() on a mutex that is now destroyed, which is
\* undefined: it is woken and goes on with a dangling Guard, or it is
\* never woken.
Cleared(m, p, s, g) ==
    IF g = "live" THEN {"dangling"}
    ELSE IF AtBusyMutex(m, p, s, g) THEN {"none", "dangling", "hung"}
    ELSE {g}

\* ~Guard: mutex.unlock() through the reference taken at construction.
\* A live reference releases the mutex of the record of s.  A dangling one
\* (the record was destroyed by clear()) is undefined: the store hits freed
\* memory, which has no effect on the map or, when the storage was reused
\* for a record inserted since, releases that record's mutex.
\* A reference to a record that was dropped from the node list releases
\* a mutex that no lookup reaches any more.
Unlocked(m, s, g) ==
    IF g = "live" THEN {[m EXCEPT ![s].mutex = NoOwner]}
    ELSE IF g = "lost" THEN {m}
    ELSE {m} \cup {[m EXCEPT ![t].mutex = NoOwner] :
                     t \in {u \in DOMAIN m : m[u].mutex # NoOwner}}

\* ------------------------------------------------------------- Init
InitThreads ==
    /\ accepted = 0
    /\ pc = [h \in Threads |-> "idle"]
    /\ trans = [h \in Threads |-> NoTrans]
    /\ stock = [h \in Threads |-> NoStock]
    /\ a = [h \in Threads |-> 0]
    /\ ret = [h \in Threads |-> NoRet]
    /\ tmp = [h \in Threads |-> 0]
    /\ guard = [h \in Threads |-> "none"]
    /\ head = [h \in Threads |-> {}]
    /\ io = [h \in Threads |-> "ok"]
    /\ out = [h \in Threads |-> << >>]
    /\ preReset = [h \in Threads |-> FALSE]
    /\ cleared = [s \in Symbols |-> FALSE]
    /\ nCreated = [s \in Symbols |-> 0]
    /\ pre = [h \in Threads |-> NoLedger]
    /\ lastOp = [s \in Symbols |-> NoLast]

\* at program start the map is empty
Init ==
    /\ stockMap = EmptyMap
    /\ expected = NoLedger
    /\ InitThreads

\* ------------------------------------------- runServer and clientThread
\* variant: the final else of process falls into the reset branch
Dispatch_ResetDefault(t) ==
    IF t = "create" THEN "c_find"
    ELSE IF t = "buy" THEN "b_find"
    ELSE IF t = "sell" THEN "s_find"
    ELSE IF t = "status" THEN "st_find"
    ELSE "reset"

\* process: where the if/else chain on trans sends a verb
Dispatch(t) ==
    IF t = "create" THEN "c_find"
    ELSE IF t = "buy" THEN "b_find"
    ELSE IF t = "sell" THEN "s_find"
    ELSE IF t = "status" THEN "st_find"
    ELSE IF t = "reset" THEN "reset"
    ELSE "done"

\* process: ret = "" on entry; only the final else assigns it in process
Process(t) == IF Dispatch(t) = "done" THEN InvalidRequest ELSE NoRet

\* variant: the listener joins each handler before it accepts again
Accept_Joins(h) ==
    /\ \A g \in Threads : pc[g] \in {"idle", "closed"}
    /\ pc[h] = "idle"
    /\ h = accepted + 1
    /\ accepted' = h

\* runServer: accept returns the next connection, thread h is started on
\* it and detached, and the loop is back at accept.  Nothing of the
\* handlers is consulted; maxThreads is never read.
Accept(h) ==
    /\ pc[h] = "idle"
    /\ h = accepted + 1
    /\ accepted' = h

\* clientThread parses (t, s, n) from the request line and calls process
Parse(h, t, s, n) ==
    /\ trans' = [trans EXCEPT ![h] = t]
    /\ stock' = [stock EXCEPT ![h] = s]
    /\ a' = [a EXCEPT ![h] = n]
    /\ pc' = [pc EXCEPT ![h] = Dispatch(t)]
    /\ ret' = [ret EXCEPT ![h] = Process(t)]
    /\ cleared' = [x \in Symbols |-> cleared[x] /\ ~(x = s /\ t = "create")]
    /\ UNCHANGED <<stockMap, tmp, guard, preReset, nCreated, head>>

\* a connection whose request line arrives at once
Request(h, t, s, n) == Accept(h) /\ Parse(h, t, s, n)

\* the threads that are between accept and the end of their response
InFlight == {g \in Threads : pc[g] \notin {"idle", "closed"}}

\* a is parsed from every request line; statusS and resetS take no amount,
\* so one amount stands for all on their requests
AmountsOf(t) == IF t \in {"status", "reset"} THEN {1} ELSE Amounts

\* the runs followed here are those in which requests overlap in pairs: a
\* connection is accepted while at most one earlier request is in flight
Start(h) ==
    /\ \A g1, g2 \in InFlight : g1 = g2
    /\ \E t \in Verbs, s \in Symbols :
          \E n \in AmountsOf(t) : Request(h, t, s, n)
    /\ UNCHANGED <<pre, lastOp, expected, ioVars>>

\* clientThread writes the response; the thread ends, the connection closes
Respond(h) ==
    /\ pc[h] = "done"
    /\ pc' = [pc EXCEPT ![h] = "closed"]
    /\ trans' = [trans EXCEPT ![h] = NoTrans]
    /\ stock' = [stock EXCEPT ![h] = NoStock]
    /\ a' = [a EXCEPT ![h] = 0]
    /\ ret' = [ret EXCEPT ![h] = NoRet]
    /\ preReset' = [preReset EXCEPT ![h] = FALSE]
    /\ UNCHANGED <<stockMap, accepted, tmp, guard, cleared, nCreated, head>>

Finish(h) ==
    /\ Respond(h)
    /\ UNCHANGED <<pre, lastOp, expected, ioVars>>

\* ------------------------------------------------------------ createS
\* variant: createS without the presence check
CreateFind_NoCheck(h) ==
    /\ pc[h] = "c_find"
    /\ pc' = [pc EXCEPT ![h] = "c_lock"]
    /\ UNCHANGED <<stockMap, reqVars, ret, tmp, guard, accepted, histVars,
                   ioVars, head>>

CreateFind(h) ==
    /\ pc[h] = "c_find"
    /\ IF Found(stockMap, stock[h])
       THEN /\ ret' = [ret EXCEPT ![h] = AlreadyExists(stock[h])]
            /\ pc' = [pc EXCEPT ![h] = "done"]
       ELSE /\ pc' = [pc EXCEPT ![h] = "c_lock"]
            /\ UNCHANGED ret
    /\ UNCHANGED <<stockMap, reqVars, tmp, guard, accepted, histVars, ioVars,
                   head>>

\* the map after the node of s, read against the node list seen, is
\* linked at its head with its mutex locked by h: the nodes linked since
\* the read, and an earlier node of s, are no longer reached
Linked(m, seen, s, h) ==
    [t \in (seen \cap DOMAIN m) \cup {s} |->
        IF t = s THEN [NewStock EXCEPT !.mutex = h] ELSE m[t]]

\* Guard lock(sm::stockMap[stock].mutex).  When the stock is in the map,
\* operator[] returns its record and lock() waits for the mutex.  When it
\* is not, operator[] reads the node list to insert ...
CreateLock(h) ==
    /\ pc[h] = "c_lock"
    /\ guard[h] # "hung"
    /\ IF guard[h] = "dangling"
       THEN /\ pc' = [pc EXCEPT ![h] = "c_name"]
            /\ UNCHANGED <<stockMap, guard, head>>
       ELSE IF Found(stockMap, stock[h])
       THEN /\ CanLock(stockMap, stock[h])
            /\ stockMap' = Locked(stockMap, stock[h], h)
            /\ guard' = [guard EXCEPT ![h] = "live"]
            /\ pc' = [pc EXCEPT ![h] = "c_name"]
            /\ UNCHANGED head
       ELSE /\ head' = [head EXCEPT ![h] = DOMAIN stockMap]
            /\ pc' = [pc EXCEPT ![h] = "c_link"]
            /\ UNCHANGED <<stockMap, guard>>
    /\ UNCHANGED <<reqVars, ret, tmp, accepted, histVars, ioVars>>

\* ... links the new node and locks its mutex
CreateLink(h) ==
    /\ pc[h] = "c_link"
    /\ stockMap' = Linked(stockMap, head[h], stock[h], h)
    /\ guard' = [g \in Threads |->
                   IF g = h THEN "live"
                   ELSE IF /\ guard[g] = "live"
                           /\ \/ stock[g] = stock[h]
                              \/ stock[g] \notin head[h]
                        THEN "lost"
                   ELSE guard[g]]
    /\ head' = [head EXCEPT ![h] = {}]
    /\ pc' = [pc EXCEPT ![h] = "c_name"]
    /\ UNCHANGED <<reqVars, ret, tmp, accepted, histVars, ioVars>>

CreateName(h) ==
    /\ pc[h] = "c_name"
    /\ stockMap' = [Index(stockMap, stock[h]) EXCEPT
                      ![stock[h]].name = stock[h]]
    /\ pc' = [pc EXCEPT ![h] = "c_bal"]
    /\ UNCHANGED <<reqVars, ret, tmp, guard, accepted, histVars, ioVars,
                   head>>

\* variant: createS never assigns the balance
CreateBalance_Skip(h) ==
    /\ pc[h] = "c_bal"
    /\ stockMap' = Index(stockMap, stock[h])
    /\ pc' = [pc EXCEPT ![h] = "c_unlock"]
    /\ UNCHANGED <<reqVars, ret, tmp, guard, accepted, histVars, ioVars,
                   head>>

CreateBalance(h) ==
    /\ pc[h] = "c_bal"
    /\ stockMap' = Stored(stockMap, stock[h], a[h])
    /\ pc' = [pc EXCEPT ![h] = "c_unlock"]
    /\ UNCHANGED <<reqVars, ret, tmp, guard, accepted, histVars, ioVars,
                   head>>

CreateUnlock(h) ==
    /\ pc[h] = "c_unlock"
    /\ ret' = [ret EXCEPT ![h] = Created(stock[h], a[h])]
    /\ stockMap' \in Unlocked(stockMap, stock[h], guard[h])
    /\ guard' = [guard EXCEPT ![h] = "none"]
    /\ pc' = [pc EXCEPT ![h] = "done"]
    /\ nCreated' = [nCreated EXCEPT ![stock[h]] = @ + 1]
    /\ UNCHANGED <<reqVars, tmp, accepted, preReset, cleared, pre, lastOp,
                   expected, ioVars, head>>

\* --------------------------------------------------------------- buyS
\* variant: buyS without the presence check
BuyFind_NoCheck(h) ==
    /\ pc[h] = "b_find"
    /\ pc' = [pc EXCEPT ![h] = "b_lock"]
    /\ UNCHANGED <<stockMap, reqVars, ret, tmp, guard, accepted, histVars,
                   ioVars, head>>

BuyFind(h) ==
    /\ pc[h] = "b_find"
    /\ IF ~Found(stockMap, stock[h])
       THEN /\ ret' = [ret EXCEPT ![h] = NotFound]
            /\ pc' = [pc EXCEPT ![h] = "done"]
       ELSE /\ pc' = [pc EXCEPT ![h] = "b_lock"]
            /\ UNCHANGED ret
    /\ UNCHANGED <<stockMap, reqVars, tmp, guard, accepted, histVars, ioVars,
                   head>>

BuyLock(h) ==
    /\ pc[h] = "b_lock"
    /\ guard[h] # "hung"
    /\ IF guard[h] = "dangling"
       THEN UNCHANGED <<stockMap, guard>>
       ELSE /\ CanLock(stockMap, stock[h])
            /\ stockMap' = Locked(stockMap, stock[h], h)
            /\ guard' = [guard EXCEPT ![h] = "live"]
    /\ pc' = [pc EXCEPT ![h] = "b_read"]
    /\ UNCHANGED <<reqVars, ret, tmp, accepted, histVars, ioVars, head>>

\* balance -= amount is a load of stockMap[stock].balance ...
BuyRead(h) ==
    /\ pc[h] = "b_read"
    /\ stockMap' = Index(stockMap, stock[h])
    /\ tmp' = [tmp EXCEPT ![h] = Index(stockMap, stock[h])[stock[h]].balance]
    /\ pc' = [pc EXCEPT ![h] = "b_write"]
    /\ UNCHANGED <<reqVars, ret, guard, accepted, histVars, ioVars, head>>

\* variant: buyS floors the balance at zero
BuyWrite_Floor(h) ==
    /\ pc[h] = "b_write"
    /\ stockMap' = Stored(stockMap, stock[h],
                          IF tmp[h] - a[h] < 0 THEN 0 ELSE tmp[h] - a[h])
    /\ tmp' = [tmp EXCEPT ![h] = 0]
    /\ pc' = [pc EXCEPT ![h] = "b_unlock"]
    /\ UNCHANGED <<reqVars, ret, guard, accepted, histVars, ioVars, head>>

\* ... and a store of the loaded value - amount through the same reference
BuyWrite(h) ==
    /\ pc[h] = "b_write"
    /\ stockMap' = Stored(stockMap, stock[h], tmp[h] - a[h])
    /\ tmp' = [tmp EXCEPT ![h] = 0]
    /\ pc' = [pc EXCEPT ![h] = "b_unlock"]
    /\ UNCHANGED <<reqVars, ret, guard, accepted, histVars, ioVars, head>>

BuyUnlock(h) ==
    /\ pc[h] = "b_unlock"
    /\ ret' = [ret EXCEPT ![h] = Updated(stock[h])]
    /\ stockMap' \in Unlocked(stockMap, stock[h], guard[h])
    /\ guard' = [guard EXCEPT ![h] = "none"]
    /\ pc' = [pc EXCEPT ![h] = "done"]
    /\ UNCHANGED <<reqVars, tmp, accepted, histVars, ioVars, head>>

\* --------------------------------------------------------------- sellS
SellFind(h) ==
    /\ pc[h] = "s_find"
    /\ IF ~Found(stockMap, stock[h])
       THEN /\ ret' = [ret EXCEPT ![h] = NotFound]
            /\ pc' = [pc EXCEPT ![h] = "done"]
       ELSE /\ pc' = [pc EXCEPT ![h] = "s_lock"]
            /\ UNCHANGED ret
    /\ UNCHANGED <<stockMap, reqVars, tmp, guard, accepted, histVars, ioVars,
                   head>>

SellLock(h) ==
    /\ pc[h] = "s_lock"
    /\ guard[h] # "hung"
    /\ IF guard[h] = "dangling"
       THEN UNCHANGED <<stockMap, guard>>
       ELSE /\ CanLock(stockMap, stock[h])
            /\ stockMap' = Locked(stockMap, stock[h], h)
            /\ guard' = [guard EXCEPT ![h] = "live"]
    /\ pc' = [pc EXCEPT ![h] = "s_read"]
    /\ UNCHANGED <<reqVars, ret, tmp, accepted, histVars, ioVars, head>>

\* balance += amount is a load of stockMap[stock].balance ...
SellRead(h) ==
    /\ pc[h] = "s_read"
    /\ stockMap' = Index(stockMap, stock[h])
    /\ tmp' = [tmp EXCEPT ![h] = Index(stockMap, stock[h])[stock[h]].balance]
    /\ pc' = [pc EXCEPT ![h] = "s_write"]
    /\ UNCHANGED <<reqVars, ret, guard, accepted, histVars, ioVars, head>>

\* ... and a store of the loaded value + amount through the same reference
SellWrite(h) ==
    /\ pc[h] = "s_write"
    /\ stockMap' = Stored(stockMap, stock[h], tmp[h] + a[h])
    /\ tmp' = [tmp EXCEPT ![h] = 0]
    /\ pc' = [pc EXCEPT ![h] = "s_unlock"]
    /\ UNCHANGED <<reqVars, ret, guard, accepted, histVars, ioVars, head>>

SellUnlock(h) ==
    /\ pc[h] = "s_unlock"
    /\ ret' = [ret EXCEPT ![h] = Updated(stock[h])]
    /\ stockMap' \in Unlocked(stockMap, stock[h], guard[h])
    /\ guard' = [guard EXCEPT ![h] = "none"]
    /\ pc' = [pc EXCEPT ![h] = "done"]
    /\ UNCHANGED <<reqVars, tmp, accepted, histVars, ioVars, head>>

\* ------------------------------------------------------------ statusS
StatusFind(h) ==
    /\ pc[h] = "st_find"
    /\ IF ~Found(stockMap, stock[h])
       THEN /\ ret' = [ret EXCEPT ![h] = NotFound]
            /\ pc' = [pc EXCEPT ![h] = "done"]
       ELSE /\ pc' = [pc EXCEPT ![h] = "st_read"]
            /\ UNCHANGED ret
    /\ UNCHANGED <<stockMap, reqVars, tmp, guard, accepted, histVars, ioVars,
                   head>>

StatusRead(h) ==
    /\ pc[h] = "st_read"
    /\ stockMap' = Index(stockMap, stock[h])
    /\ ret' = [ret EXCEPT ![h] =
                 BalanceFor(stock[h],
                            Index(stockMap, stock[h])[stock[h]].balance)]
    /\ pc' = [pc EXCEPT ![h] = "done"]
    /\ UNCHANGED <<reqVars, tmp, guard, accepted, histVars, ioVars, head>>

\* ------------------------------------------------------------- resetS
\* variant: resetS reports the reset without clearing the map
ResetS_KeepsMap(h) ==
    /\ pc[h] = "reset"
    /\ ret' = [ret EXCEPT ![h] = StocksReset]
    /\ pc' = [pc EXCEPT ![h] = "done"]
    /\ preReset' = [g \in Threads |->
                      g # h /\ pc[g] \notin {"idle", "closed"}]
    /\ cleared' = [s \in Symbols |-> TRUE]
    /\ nCreated' = [s \in Symbols |-> 0]
    /\ UNCHANGED <<stockMap, guard, reqVars, tmp, accepted, pre, lastOp,
                   expected, ioVars, head>>

ResetS(h) ==
    /\ pc[h] = "reset"
    /\ stockMap' = EmptyMap
    /\ guard' \in {f \in [Threads -> GuardStates] :
                     \A g \in Threads :
                        f[g] \in Cleared(stockMap, pc[g], stock[g], guard[g])}
    /\ ret' = [ret EXCEPT ![h] = StocksReset]
    /\ pc' = [pc EXCEPT ![h] = "done"]
    /\ preReset' = [g \in Threads |->
                      g # h /\ pc[g] \notin {"idle", "closed"}]
    /\ cleared' = [s \in Symbols |-> TRUE]
    /\ nCreated' = [s \in Symbols |-> 0]
    /\ UNCHANGED <<reqVars, tmp, accepted, pre, lastOp, expected, ioVars,
                   head>>

\* ------------------------------------------------------ specification
Step(h) ==
    \/ CreateFind(h) \/ CreateLock(h) \/ CreateLink(h)
    \/ CreateName(h)
    \/ CreateBalance(h) \/ CreateUnlock(h)
    \/ BuyFind(h) \/ BuyLock(h) \/ BuyRead(h) \/ BuyWrite(h) \/ BuyUnlock(h)
    \/ SellFind(h) \/ SellLock(h) \/ SellRead(h) \/ SellWrite(h)
    \/ SellUnlock(h)
    \/ StatusFind(h) \/ StatusRead(h)
    \/ ResetS(h)

Next == \E h \in Threads : Start(h) \/ Step(h) \/ Finish(h)

Spec == Init /\ [][Next]_vars

TypeOK ==
    /\ DOMAIN stockMap \subseteq Symbols
    /\ \A s \in DOMAIN stockMap :
         /\ stockMap[s].name \in {"", s}
         /\ stockMap[s].balance \in Int
         /\ stockMap[s].mutex \in Threads \cup {NoOwner}
    /\ \A h \in Threads :
         /\ guard[h] \in GuardStates
         /\ head[h] \subseteq Symbols
         /\ trans[h] \in Verbs \cup {NoTrans}
         /\ stock[h] \in Symbols \cup {NoStock}
    /\ accepted \in 0..MaxRequests

\* ------------------------------------------------- sequential requests
\* one request at a time: a connection is accepted only when no request is
\* in flight.  pre and lastOp record what each request started from and
\* what the last request on each symbol was.
StartSeq(h) ==
    /\ InFlight = {}
    /\ \E t \in Verbs, s \in Symbols, n \in Amounts : Request(h, t, s, n)
    /\ pre' = [pre EXCEPT ![h] = Ledger(stockMap)]
    /\ UNCHANGED <<lastOp, expected, ioVars>>

FinishSeq(h) ==
    /\ Respond(h)
    /\ lastOp' = IF trans[h] = "reset"
                 THEN [s \in Symbols |-> <<"reset", a[h], ret[h], pre[h][s]>>]
                 ELSE IF trans[h] \in LedgerVerbs
                 THEN [lastOp EXCEPT ![stock[h]] =
                          <<trans[h], a[h], ret[h], pre[h][stock[h]]>>]
                 ELSE lastOp
    /\ pre' = [pre EXCEPT ![h] = NoLedger]
    /\ UNCHANGED <<expected, ioVars>>

NextSeq == \E h \in Threads : StartSeq(h) \/ Step(h) \/ FinishSeq(h)

SpecSeq == Init /\ [][NextSeq]_vars

\* ------------------------------------- concurrent buy/sell, no reset
\* the ledgers that one create with amount MaxAmount leaves behind
Ledgers ==
    {[s \in {k} |-> [name |-> s, balance |-> MaxAmount, mutex |-> NoOwner]] :
        k \in Symbols}

InitAdjust ==
    /\ stockMap \in Ledgers
    /\ expected = Ledger(stockMap)
    /\ InitThreads

\* the signed delta of a request: buy = -amount, sell = +amount
Delta(t, n) == IF t = "buy" THEN 0 - n ELSE IF t = "sell" THEN n ELSE 0

\* any number of buy/sell requests on existing symbols in flight at once;
\* expected adds the delta of every accepted request
StartAdjust(h) ==
    /\ \E t \in {"buy", "sell"}, s \in DOMAIN stockMap, n \in Amounts :
         /\ Request(h, t, s, n)
         /\ expected' = [expected EXCEPT ![s] =
                           IF @[1] THEN Bal(@[2] + Delta(t, n)) ELSE @]
    /\ UNCHANGED <<pre, lastOp, ioVars>>

StepAdjust(h) ==
    \/ BuyFind(h) \/ BuyLock(h) \/ BuyRead(h) \/ BuyWrite(h) \/ BuyUnlock(h)
    \/ SellFind(h) \/ SellLock(h) \/ SellRead(h) \/ SellWrite(h)
    \/ SellUnlock(h)

NextAdjust == \E h \in Threads : StartAdjust(h) \/ StepAdjust(h) \/ Finish(h)

SpecAdjust == InitAdjust /\ [][NextAdjust]_vars

\* ------------------------------------- two requests on distinct symbols
\* the ledgers that creates with amount MaxAmount leave behind
PairLedgers ==
    {[s \in K |-> [name |-> s, balance |-> MaxAmount, mutex |-> NoOwner]] :
        K \in SUBSET Symbols}

InitPair ==
    /\ stockMap \in PairLedgers
    /\ expected = NoLedger
    /\ InitThreads

\* createS/buyS/sellS/statusS run from entry to return with no other
\* thread in between: the result on ledger l ...
SeqRet(l, t, s, n) ==
    IF t = "create"
    THEN IF l[s][1] THEN AlreadyExists(s) ELSE Created(s, n)
    ELSE IF ~l[s][1] THEN NotFound
    ELSE IF t = "status" THEN BalanceFor(s, l[s][2])
    ELSE Updated(s)

\* ... and the ledger left behind
SeqLedger(l, t, s, n) ==
    IF t = "create"
    THEN IF l[s][1] THEN l ELSE [l EXCEPT ![s] = Bal(n)]
    ELSE IF ~l[s][1] \/ t = "status" THEN l
    ELSE [l EXCEPT ![s] = Bal(l[s][2] + Delta(t, n))]

\* a request starts alone, or joins one request on another symbol that has
\* not returned yet; pre is the ledger from which the pair started
StartPair(h) ==
    /\ \/ InFlight = {}
       \/ \E g \in Threads : InFlight = {g} /\ pc[g] # "done"
    /\ \E t \in {"create", "buy", "sell", "status"},
          s \in Symbols \ {stock[g] : g \in InFlight}, n \in Amounts :
            Request(h, t, s, n)
    /\ pre' = [pre EXCEPT ![h] =
                 IF InFlight = {} THEN Ledger(stockMap)
                 ELSE pre[CHOOSE g \in InFlight : TRUE]]
    /\ UNCHANGED <<lastOp, expected, ioVars>>

StepPair(h) ==
    \/ CreateFind(h) \/ CreateLock(h) \/ CreateLink(h)
    \/ CreateName(h) \/ CreateBalance(h) \/ CreateUnlock(h)
    \/ BuyFind(h) \/ BuyLock(h) \/ BuyRead(h) \/ BuyWrite(h) \/ BuyUnlock(h)
    \/ SellFind(h) \/ SellLock(h) \/ SellRead(h) \/ SellWrite(h)
    \/ SellUnlock(h)
    \/ StatusFind(h) \/ StatusRead(h)

\* the responses of a pair are written once both requests have returned
FinishPair(h) ==
    /\ \A g \in InFlight : pc[g] = "done"
    /\ Respond(h)
    /\ pre' = [pre EXCEPT ![h] = NoLedger]
    /\ UNCHANGED <<lastOp, expected, ioVars>>

NextPair == \E h \in Threads : StartPair(h) \/ StepPair(h) \/ FinishPair(h)

SpecPair == InitPair /\ [][NextPair]_vars

\* --------------------------------------------- any number in flight
\* requests on one symbol with one amount, accepted with no limit on how
\* many are in flight; every thread that can take a step gets to take it
StartAll(h) ==
    /\ \E t \in LedgerVerbs : Request(h, t, "A", 1)
    /\ UNCHANGED <<pre, lastOp, expected, ioVars>>

NextAll == \E h \in Threads : StartAll(h) \/ Step(h) \/ Finish(h)

SpecAll == Init /\ [][NextAll]_vars

SpecFair == SpecAll /\ \A h \in Threads : WF_vars(Step(h))

\* ----------------------------------------- the listener and slow clients
\* the handler is detached and waits in getline for its request line
AcceptL(h) ==
    /\ Accept(h)
    /\ pc' = [pc EXCEPT ![h] = "reading"]
    /\ UNCHANGED <<stockMap, reqVars, ret, tmp, guard, histVars, ioVars,
                   head>>

\* the request line arrives, if it ever does
ReadL(h) ==
    /\ pc[h] = "reading"
    /\ \E t \in {"buy", "sell"}, s \in DOMAIN stockMap, n \in Amounts :
         Parse(h, t, s, n)
    /\ UNCHANGED <<accepted, pre, lastOp, expected, ioVars>>

NextListen ==
    \E h \in Threads : AcceptL(h) \/ ReadL(h) \/ StepAdjust(h) \/ Finish(h)

SpecListen == InitAdjust /\ [][NextListen]_vars

\* ------------------------------------------- the connection's stream
\* the characters of a result string, as createS .. process build it
Text(r) ==
    IF r = NoRet THEN ""
    ELSE IF r = NotFound THEN "Stock not found"
    ELSE IF r = StocksReset THEN "Stocks reset"
    ELSE IF r = InvalidRequest THEN "Invalid request"
    ELSE IF r = AlreadyExists(r[2])
         THEN "Stock " \o r[2] \o " already exists"
    ELSE IF r = Created(r[2], r[3])
         THEN "Stock " \o r[2] \o " created with balance = " \o ToString(r[3])
    ELSE IF r = Updated(r[2]) THEN "Stock " \o r[2] \o "'s balance updated"
    ELSE "Balance for stock " \o r[2] \o " = " \o ToString(r[3])

\* variant: Content-Length also counts a line end after the body
HttpResponse_CountsLineEnd(data) ==
    [status |-> 200, contentLength |-> Len(data) + 2,
     connection |-> "Close", body |-> data]

\* HTTPRespHeader formatted with data.size(), followed by data
HttpResponse(data) ==
    [status |-> 200, contentLength |-> Len(data),
     connection |-> "Close", body |-> data]

\* one connection at a time, over a stream that can fail.  "line": the
\* request line cannot be read, so nothing is parsed (trans and stock stay
\* empty, a is never assigned and holds any value).  "header": the request
\* line is parsed and a header line cannot be read; the loop ends and
\* process is called all the same.  The records of the earlier connections
\* go away with their streams.
StartIO(h) ==
    /\ InFlight = {}
    /\ \E f \in {"ok", "line", "header"} :
         /\ io' = [g \in Threads |-> IF g = h THEN f ELSE "ok"]
         /\ IF f = "line"
            THEN \E n \in Amounts \cup {0} : Request(h, NoTrans, NoStock, n)
            ELSE \E t \in Verbs, s \in Symbols, n \in Amounts :
                    Request(h, t, s, n)
    /\ pre' = [g \in Threads |-> IF g = h THEN Ledger(stockMap) ELSE NoLedger]
    /\ out' = [g \in Threads |-> << >>]
    /\ UNCHANGED <<lastOp, expected>>

\* os << httpForm << data: on a good stream the response is written, or
\* the write fails; on a stream that already failed nothing is written
FinishIO(h) ==
    /\ Respond(h)
    /\ IF io[h] = "ok"
       THEN \/ /\ out' = [out EXCEPT
                            ![h] = Append(@, HttpResponse(Text(ret[h])))]
               /\ UNCHANGED io
            \/ /\ io' = [io EXCEPT ![h] = "write"]
               /\ UNCHANGED out
       ELSE UNCHANGED <<io, out>>
    /\ UNCHANGED <<pre, lastOp, expected>>

NextIO == \E h \in Threads : StartIO(h) \/ Step(h) \/ FinishIO(h)

SpecIO == Init /\ [][NextIO]_vars

Quiescent == \A h \in Threads : pc[h] \in {"idle", "done", "closed"}

\* ============================================================== claims

\* C1: for an existing symbol, once every concurrent buy/sell handler on it
\* has finished (no reset, no create in flight), its balance is the initial
\* balance plus the sum of the signed deltas of the handlers.
C1_NoLostUpdates ==
    Quiescent => \A s \in DOMAIN stockMap :
                    Bal(stockMap[s].balance) = expected[s]

\* two handlers on the same symbol have both finished with "balance updated"
C1_Witness ==
    /\ Quiescent
    /\ \E h1, h2 \in Threads :
         /\ h1 # h2
         /\ pc[h1] = "done" /\ pc[h2] = "done"
         /\ stock[h1] = stock[h2]
         /\ ret[h1] = Updated(stock[h1]) /\ ret[h2] = Updated(stock[h2])
         /\ Bal(stockMap[stock[h1]].balance) = expected[stock[h1]]

\* C2: resetS never clears the map while another handler is inside createS,
\* buyS, sellS or statusS (past its presence check), so no handler is left
\* with a reference to a record that a reset removed.
C2_ResetExclusive ==
    [][\A h \in Threads :
         (pc[h] = "reset" /\ pc'[h] = "done")
            => /\ \A g \in Threads \ {h} : pc[g] \notin InsidePcs
               /\ \A g \in Threads : guard'[g] # "dangling"]_vars

\* C3: a status that starts after a reset completed, on a symbol for which
\* no create started after that reset, returns "Stock not found", also when
\* handlers that began before the reset are still in flight.
C3_EmptyAfterReset ==
    \A h \in Threads :
        (/\ pc[h] = "done"
         /\ trans[h] = "status"
         /\ ~preReset[h]
         /\ cleared[stock[h]])
            => ret[h] = NotFound

\* C4: createS on a symbol that is present returns "already exists" and
\* leaves the whole map, hence every balance, as it was.
C4_CreateExisting ==
    [][\A h \in Threads :
         (pc[h] = "c_find" /\ pc'[h] # "c_find"
             /\ Found(stockMap, stock[h]))
            => /\ pc'[h] = "done"
               /\ ret'[h] = AlreadyExists(stock[h])
               /\ stockMap' = stockMap]_vars

\* a create has returned "already exists" for a symbol that is in the map
C4_Witness ==
    \E h \in Threads :
        /\ pc[h] = "done"
        /\ trans[h] = "create"
        /\ ret[h] = AlreadyExists(stock[h])
        /\ Found(stockMap, stock[h])
        /\ stockMap[stock[h]].balance # a[h]

\* C5: of the creates of one absent symbol that run concurrently, exactly
\* one returns "created" (between two resets, at most one create of a symbol
\* returns "created").
C5_OneCreator == \A s \in Symbols : nCreated[s] <= 1

\* C6: buyS, sellS and statusS on an absent symbol return "Stock not found"
\* and leave the map (key set and balances) as it was.
C6_AbsentNotFound ==
    [][\A h \in Threads :
         (pc[h] \in {"b_find", "s_find", "st_find"} /\ pc'[h] # pc[h]
             /\ ~Found(stockMap, stock[h]))
            => /\ pc'[h] = "done"
               /\ ret'[h] = NotFound
               /\ stockMap' = stockMap]_vars

\* a buy or sell has returned "Stock not found" and its symbol is absent
C6_Witness ==
    \E h \in Threads :
        /\ pc[h] = "done"
        /\ trans[h] \in {"buy", "sell"}
        /\ ret[h] = NotFound
        /\ ~Found(stockMap, stock[h])
        /\ stockMap # EmptyMap

\* C7: a create of an absent symbol returns "created with balance = n", and
\* the next request on the symbol, if a status, reports balance n.
C7_CreateThenStatus ==
    \A h \in Threads :
        /\ (pc[h] = "done" /\ trans[h] = "create"
               /\ pre[h][stock[h]] = Absent)
              => ret[h] = Created(stock[h], a[h])
        /\ (pc[h] = "done" /\ trans[h] = "status"
               /\ lastOp[stock[h]][1] = "create"
               /\ lastOp[stock[h]][4] = Absent)
              => /\ lastOp[stock[h]][3] =
                       Created(stock[h], lastOp[stock[h]][2])
                 /\ ret[h] = BalanceFor(stock[h], lastOp[stock[h]][2])

\* a status right after the create of an absent symbol has reported
C7_Witness ==
    \E h \in Threads :
        /\ pc[h] = "done" /\ trans[h] = "status"
        /\ lastOp[stock[h]][1] = "create"
        /\ lastOp[stock[h]][4] = Absent
        /\ ret[h] = BalanceFor(stock[h], MaxAmount)

\* C8: on a present symbol with balance b, buy n then status reports b - n
\* and sell n then status reports b + n; nothing is clamped, so the report
\* is negative when n > b on a buy.
C8_AdjustThenStatus ==
    \A h \in Threads :
        (pc[h] = "done" /\ trans[h] = "status" /\ lastOp[stock[h]][4][1])
           => LET n == lastOp[stock[h]][2]
                  b == lastOp[stock[h]][4][2]
              IN /\ lastOp[stock[h]][1] = "buy"
                       => ret[h] = BalanceFor(stock[h], b - n)
                 /\ lastOp[stock[h]][1] = "sell"
                       => ret[h] = BalanceFor(stock[h], b + n)

\* a status after a buy of more than the balance has reported a negative
C8_Witness ==
    \E h \in Threads :
        /\ pc[h] = "done" /\ trans[h] = "status"
        /\ lastOp[stock[h]][1] = "buy"
        /\ lastOp[stock[h]][4][1]
        /\ lastOp[stock[h]][2] > lastOp[stock[h]][4][2]
        /\ ret[h] = BalanceFor(stock[h],
                               lastOp[stock[h]][4][2] - lastOp[stock[h]][2])
        /\ ret[h][3] < 0

\* C9: with no other request in flight, reset returns "Stocks reset", the
\* map is empty after it, and a status that follows returns "Stock not
\* found" for every symbol, those that existed before the reset included.
C9_ResetThenStatus ==
    \A h \in Threads :
        /\ (pc[h] = "done" /\ trans[h] = "reset")
              => ret[h] = StocksReset /\ stockMap = EmptyMap
        /\ (pc[h] = "done" /\ trans[h] = "status"
               /\ lastOp[stock[h]][1] = "reset")
              => ret[h] = NotFound

\* a status has answered for a symbol that existed before the last reset
C9_Witness ==
    \E h \in Threads :
        /\ pc[h] = "done" /\ trans[h] = "status"
        /\ lastOp[stock[h]][1] = "reset"
        /\ lastOp[stock[h]][4][1]
        /\ ret[h] = NotFound

\* C10: a verb other than create, buy, sell, status, reset gives "Invalid
\* request" and leaves the map unchanged, whatever the symbol and amount.
C10_InvalidVerb ==
    [][\A h \in Threads :
         (pc[h] = "idle" /\ pc'[h] # "idle" /\ trans'[h] \notin LedgerVerbs)
            => /\ pc'[h] = "done"
               /\ ret'[h] = InvalidRequest
               /\ stockMap' = stockMap]_vars

\* an invalid verb has been answered while the ledger holds a stock
C10_Witness ==
    \E h \in Threads :
        /\ pc[h] = "done"
        /\ trans[h] \notin LedgerVerbs
        /\ ret[h] = InvalidRequest
        /\ stockMap # EmptyMap

\* C11: a connection whose handler runs to completion gets exactly one
\* response: status 200, Content-Length equal to the length of the body, and
\* the body equal to the result string of process, whatever the outcome.
C11_OneResponse ==
    [][\A h \in Threads :
         /\ Len(out'[h]) <= 1
         /\ (pc[h] = "done" /\ pc'[h] = "closed" /\ io'[h] = "ok")
               => /\ Len(out'[h]) = 1
                  /\ out'[h][1].status = 200
                  /\ out'[h][1].body = Text(ret[h])
                  /\ out'[h][1].contentLength = Len(Text(ret[h]))]_vars

\* an invalid verb and a missing stock have been answered with a 200
C11_Witness ==
    \E h \in Threads :
        /\ pc[h] = "closed" /\ io[h] = "ok"
        /\ out[h] \in {<<[status |-> 200, contentLength |-> 15,
                          connection |-> "Close", body |-> b]>> :
                         b \in {"Invalid request", "Stock not found"}}

\* C12: an I/O failure on a connection (request line, header line or
\* response) leaves the ledger as it was before the connection was accepted.
C12_IoFailureNoEffect ==
    \A h \in Threads :
        (pc[h] = "closed" /\ h = accepted /\ io[h] # "ok")
           => Ledger(stockMap) = pre[h]

\* C13: the listener never waits for a handler and admits without limit:
\* whatever the handlers are doing (waiting for a request line, waiting for
\* a mutex, running), the next connection can be accepted.
C13_ListenerNeverWaits ==
    \A h \in Threads : (h = accepted + 1) => ENABLED AcceptL(h)

\* a later connection was accepted and served to the end while an earlier
\* one still waits for its request line and another holds a mutex
C13_Witness ==
    \E g, h, k \in Threads :
        /\ g < k /\ h < k
        /\ pc[g] = "reading"
        /\ pc[h] \in {"b_read", "b_write", "s_read", "s_write"}
        /\ pc[k] = "closed"

\* C14: every read of a record's balance (by buy, sell and in particular
\* status) is made by a handler that holds the mutex of that record.
C14_ReadsHoldGuard ==
    [][\A h \in Threads :
         (pc[h] \in {"b_read", "s_read", "st_read"} /\ pc'[h] # pc[h])
            => /\ Found(stockMap, stock[h])
               /\ stockMap[stock[h]].mutex = h]_vars

\* C15: a handler about to write a record's name or balance holds the
\* mutex of that record (its Guard is live and the record names it as the
\* owner), and no two handlers are at a write of the same symbol.
C15_WritesHoldGuard ==
    \A h \in Threads :
        pc[h] \in {"c_name", "c_bal", "b_write", "s_write"}
           => /\ guard[h] = "live"
              /\ Found(stockMap, stock[h])
              /\ stockMap[stock[h]].mutex = h
              /\ \A g \in Threads \ {h} :
                    pc[g] \in {"c_name", "c_bal", "b_write", "s_write"}
                       => stock[g] # stock[h]

\* C16: no status, buy or sell finds symbol s present while a creating
\* handler has inserted s and has not yet assigned its balance.
C16_NeverHalfBuilt ==
    [][\A h \in Threads :
         (/\ pc[h] \in {"st_find", "b_find", "s_find"}
          /\ pc'[h] \in {"st_read", "b_lock", "s_lock"})
            => ~\E g \in Threads \ {h} :
                    /\ pc[g] \in {"c_name", "c_bal"}
                    /\ stock[g] = stock[h]]_vars

\* C17: a symbol that is present stays present until a reset executes: a
\* step that removes a key is the clear() of a reset handler, never a step
\* of create, buy, sell, status or an invalid request.
C17_KeysMonotonic ==
    [][\A s \in Symbols :
         (Found(stockMap, s) /\ ~Found(stockMap', s))
            => \E h \in Threads : pc[h] = "reset" /\ pc'[h] = "done"]_vars

\* both symbols are present after a buy or sell has written one of them
C17_Witness ==
    /\ \A s \in Symbols : Found(stockMap, s)
    /\ \E h \in Threads :
          /\ pc[h] = "done" /\ trans[h] \in {"buy", "sell"}
          /\ ret[h] = Updated(stock[h])

\* C18: two create/buy/sell/status requests on distinct symbols, however
\* their steps interleave, return the results and leave the ledger that
\* running one and then the other would, in either order.
C18_DistinctSymbolsIndependent ==
    \A g, h \in Threads :
        (g # h /\ pc[g] = "done" /\ pc[h] = "done")
           => LET l1 == SeqLedger(pre[g], trans[g], stock[g], a[g])
              IN  /\ ret[g] = SeqRet(pre[g], trans[g], stock[g], a[g])
                  /\ ret[h] = SeqRet(l1, trans[h], stock[h], a[h])
                  /\ Ledger(stockMap) =
                        SeqLedger(l1, trans[h], stock[h], a[h])

\* C19: only create adds keys: a step after which a symbol is present that
\* was absent before is a step of a create handler for that symbol, never
\* one of buy, sell or status, also when a reset is interleaved.
C19_OnlyCreateInserts ==
    [][\A s \in Symbols :
         (~Found(stockMap, s) /\ Found(stockMap', s))
            => \E h \in Threads :
                  /\ trans[h] = "create" /\ stock[h] = s
                  /\ pc'[h] # pc[h]]_vars

\* C20: the ledger operations are deadlock-free: under fair scheduling every
\* handler that has entered process() eventually returns its result, for
\* any number of concurrent handlers and any mix of verbs.
C20_EveryHandlerReturns ==
    \A h \in Threads :
        (pc[h] \notin {"idle", "done", "closed"}) ~> (pc[h] = "done")

====
